---- MODULE Spec2Model ----
(***************************************************************************)
(* A model of SlackPirate.py: the message-search scans (find_s3 and its    *)
(* siblings), the plain-text finding store with file_cleanup, and the      *)
(* batched file download of download_interesting_files.                    *)
(*                                                                         *)
(* Strings are sequences of character codes, so that str.lower, the        *)
(* substring test and the ordering of sorted(..., key=str.lower) are       *)
(* computed and not assumed.                                               *)
(***************************************************************************)
EXTENDS Integers, Sequences, FiniteSets, TLC

VARIABLES
    \* ---- the finding store of one category (S3.txt / S3.csv) ----
    txt,            \* the plain-text file: [exists, lines]
    csv,            \* the structured file: [exists, rows]
    lastOp,         \* the last operation applied to txt: "none", "append", "cleanup"
    preCleanup,     \* lines of txt just before the last file_cleanup
    \* ---- one message-search scan (find_s3) ----
    pc,             \* position of the scan function
    verbose,        \* the global verbose flag
    qi,             \* index of the query under discovery
    page_count_by_query,  \* the dict filled by discovery, as a sequence in insertion order
    r,              \* the last decoded response
    dq,             \* index of the query being drained
    page,           \* the drain loop's page counter
    lastReq,        \* the last search request issued: [phase, query, page]
    nreq,           \* search requests issued, per query
    nproc,          \* pages handed to the extraction, per query
    discSleeps,     \* cooldown sleeps in the discovery loop, per query
    discLimited,    \* rate-limited discovery responses received, per query
    discReqs,       \* discovery requests issued, per query
    recorded,       \* number of page counts recorded, per query
    drainSleeps,    \* cooldown sleeps in the drain loop
    failedAt,       \* where a transport failure ended the scan: [phase, query, page], or NoFailure
    budget,         \* rate-limited responses the provider may still give
    \* ---- download_interesting_files ----
    dpc,            \* position of download_interesting_files
    fqi,            \* index of the file query under discovery
    page_counts_by_query,  \* the dict filled by discovery, in insertion order
    response_json,  \* the last decoded file-search response
    fdq,            \* index of the file query being drained
    fpage,          \* the drain loop's page counter
    unique_file_id, \* the set of file ids already given a task
    file_requests,  \* the list of Process objects: [id, origin, state, starts, attempts, outcome]
    completed_file_names,  \* the shared queue of completion messages
    batchStart,     \* the index i of the batch generator (0-based start of the batch)
    nextStart,      \* the next process _retrieve_file_batch will start
    printed,        \* the number of completion messages taken from the queue and printed
    firstSeen,      \* per file id, the page <<query, page>> that listed it first
    firstCount,     \* per file id, how many times that page listed it
    dbudget,        \* rate-limited responses the provider may still give
    dfailed,        \* a transport failure ended the file search
    reported,       \* the number of files the final message reports, -1 before it
    \* ---- the download target name of one discovered file ----
    new_file,       \* the match of the file search: [id, name]
    safe_filename,  \* the name the file is written under, <<>> before it is built
    \* ---- one session: __main__ with scan flags, or the interactive command line ----
    interactive,    \* args.interactive
    flags,          \* args_as_dict: per scan flag "None", "True" or "False"
    provided_tokens,  \* the number of tokens the session goes through
    selected_scans, \* interactive mode: the list returned by _choose_scans
    spc,            \* position of the session
    ti,             \* index of the token in use
    auth,           \* outcome of the last auth.test: "valid", "invalid", "transport_failure"
    scan_context,   \* collected_scan_context: "None" or "context"
    validated,      \* tokens for which init_scanning_context produced a context
    directories,    \* tokens whose output directory was created
    writers,        \* tokens whose scans wrote to a store
    si,             \* index in the list of scans the dispatch loop iterates
    invoked,        \* the scans invoked so far: [scan, token, cleanups]
    appends,        \* store appends of the running scan
    ended,          \* how the running scan's requests ended
    failures,       \* a scan that has returned met a transport failure
    \* ---- calls of sleep_if_rate_limited ----
    slack_api_json_response,  \* the argument of the last call
    returned,       \* the value the last call returned, "none" before the first call
    slept,          \* seconds spent in time.sleep by all calls
    calls,          \* number of calls made
    \* ---- one private-key match of find_private_keys ----
    regex_result,   \* the match as re.findall returns it
    persisted,      \* the text written for it, NotWritten before
    \* ---- dump_user_list ----
    upc,            \* position in dump_user_list
    served,         \* the provider's pages after the first member: members per page
    pagination_cursor,  \* 0 stands for the empty string
    users_r,        \* r, the last response of users.list
    results,        \* the members collected so far
    cursors,        \* the cursor of every users.list request, in order
    ubudget,        \* rate-limited responses the provider may still give
    user_list,      \* the user list file
    \* ---- find_pinned_messages ----
    ppc,            \* position in find_pinned_messages
    ci,             \* index of the channel in channel_list
    pinned_message_contents,  \* the accumulator
    total_pinned_messages,
    pinned_file,    \* the texts written to the pinned-messages file, in order
    collected,      \* every pinned message taken from a response, in order
    pbudget,        \* rate-limited responses the provider may still give
    pfailed         \* a transport failure ended the loop over the channels

storeVars == <<txt, csv, lastOp, preCleanup>>
scanVars == <<pc, verbose, qi, page_count_by_query, r, dq, page, lastReq, nreq, nproc,
              discSleeps, discLimited, discReqs, recorded, drainSleeps, failedAt, budget>>
dlVars == <<dpc, fqi, page_counts_by_query, response_json, fdq, fpage, unique_file_id,
            file_requests, completed_file_names, batchStart, nextStart, printed,
            firstSeen, firstCount, dbudget, dfailed, reported>>
nameVars == <<new_file, safe_filename>>
sessionVars == <<interactive, flags, provided_tokens, selected_scans, spc, ti, auth,
                 scan_context, validated, directories, writers, si, invoked, appends,
                 ended, failures>>
rlVars == <<slack_api_json_response, returned, slept, calls>>
keyVars == <<regex_result, persisted>>
userVars == <<upc, served, pagination_cursor, users_r, results, cursors, ubudget, user_list>>
pinVars == <<ppc, ci, pinned_message_contents, total_pinned_messages, pinned_file, collected,
             pbudget, pfailed>>
vars == <<txt, csv, lastOp, preCleanup,
          pc, verbose, qi, page_count_by_query, r, dq, page, lastReq, nreq, nproc,
          discSleeps, discLimited, discReqs, recorded, drainSleeps, failedAt, budget,
          dpc, fqi, page_counts_by_query, response_json, fdq, fpage, unique_file_id,
          file_requests, completed_file_names, batchStart, nextStart, printed,
          firstSeen, firstCount, dbudget, dfailed, reported,
          new_file, safe_filename,
          interactive, flags, provided_tokens, selected_scans, spc, ti, auth,
          scan_context, validated, directories, writers, si, invoked, appends,
          ended, failures,
          slack_api_json_response, returned, slept, calls, regex_result, persisted,
          upc, served, pagination_cursor, users_r, results, cursors, ubudget, user_list,
          ppc, ci, pinned_message_contents, total_pinned_messages, pinned_file, collected,
          pbudget, pfailed>>

(***************************************************************************)
(* Bounds of the model.                                                    *)
(***************************************************************************)
\* largest page_count the provider reports
MaxPages == 3
\* rate-limited responses the provider gives in one scan
MaxRateLimited == 2
\* lines the plain-text store holds at most, when appends and cleanups alternate freely
MaxStore == 4
\* lines one scan appends at most
MaxScanLines == 4
\* matches in one regex_results list
MaxMatches == 2
\* largest page_count the provider reports for a file query
MaxFilePages == 1
\* rate-limited responses the provider gives in one file search
MaxFileRateLimited == 1
\* download tasks created at most
MaxTasks == 3
\* characters in the name of a discovered file
MaxNameLen == 2
\* tokens an interactive session goes through
MaxTokens == 2
\* store appends of one scan in a session
MaxAppends == 1
\* calls of sleep_if_rate_limited followed on their own
MaxCalls == 5
\* characters of a private-key match
MaxKeyLen == 3
\* pages of users.list after the first member
MaxUserPages == 2
\* members on one page of users.list
MaxPageMembers == 2
\* rate-limited responses to the first users.list request
MaxUserRateLimited == 1
\* users.list requests followed in one run
MaxUserRequests == 6
\* rate-limited responses of pins.list in one scan
MaxPinRateLimited == 2
\* Pull up to this many files at once (25 in the source, scaled down)
DOWNLOAD_BATCH_SIZE == 2

(***************************************************************************)
(* Strings.                                                                *)
(***************************************************************************)
\* "\n"
NEWLINE == <<10>>
\* "com/archives/"
ARCHIVE_MARKER == <<99, 111, 109, 47, 97, 114, 99, 104, 105, 118, 101, 115, 47>>

\* The matched values the provider's pages may contain:
\* "Ab", "ab", "B", "com/archives/T"
Values == { <<65, 98>>, <<97, 98>>, <<66>>, ARCHIVE_MARKER \o <<84>> }

Range(s) == { s[i] : i \in 1..Len(s) }

LowerChar(c) == IF c \in 65..90 THEN c + 32 ELSE c

\* str.lower
Lower(s) == [i \in 1..Len(s) |-> LowerChar(s[i])]

\* sub in s
Contains(s, sub) ==
    \E i \in 0..(Len(s) - Len(sub)) : SubSeq(s, i + 1, i + Len(sub)) = sub

\* a < b for Python strings: lexicographic by code point
StrLess(a, b) ==
    \E i \in 1..(Len(a) + 1) :
        /\ \A j \in 1..(i - 1) : j <= Len(b) /\ a[j] = b[j]
        /\ \/ i > Len(a) /\ i <= Len(b)
           \/ i <= Len(a) /\ i <= Len(b) /\ a[i] < b[i]

\* every order in which the elements of a set can be iterated
RECURSIVE Orders(_)
Orders(S) ==
    IF S = {} THEN { <<>> }
    ELSE UNION { { <<x>> \o p : p \in Orders(S \ {x}) } : x \in S }

\* every list of at most n elements of S
ListsUpTo(S, n) == UNION { [1..k -> S] : k \in 0..n }

(***************************************************************************)
(* The plain-text store: append (find_s3, lines 402-404) and file_cleanup. *)
(***************************************************************************)
NoFile == [exists |-> FALSE, lines |-> <<>>]

\* item + "\n"
LineOf(item) == item \o NEWLINE

AppendsEveryMatch(file, regex_results) ==
    { [exists |-> TRUE,
       lines |-> file.lines \o [i \in 1..Len(regex_results) |-> LineOf(regex_results[i])]] }
\* for item in set(regex_results): log_output.write(item + "\n")
\* a set is iterated in an unspecified order
AppendOutcomes(file, regex_results) ==
    { [exists |-> TRUE, lines |-> file.lines \o [i \in 1..Len(o) |-> LineOf(o[i])]] :
        o \in Orders(Range(regex_results)) }

\* set(file.readlines())
ReadLines(lines) == Range(lines)

KeepEveryLine(line) == TRUE
\* "com/archives/" not in line
KeepLine(line) == ~Contains(line, ARCHIVE_MARKER)

AnyOrder(S) == Orders(S)
\* sorted(lines, key=str.lower): the sort is stable, so lines with equal keys
\* keep the order in which the set iterates them, which is unspecified
SortedByLower(S) ==
    { o \in Orders(S) :
        \A i, j \in 1..Len(o) : i < j => ~StrLess(Lower(o[j]), Lower(o[i])) }

CleanupCreatesFile(file) ==
    { [exists |-> TRUE, lines |-> SelectSeq(o, KeepLine)] :
        o \in SortedByLower(ReadLines(file.lines)) }
\* a plausible slip: the lines are sorted without being put in a set
CleanupKeepsDuplicates(file) ==
    IF ~file.exists THEN { file }
    ELSE { [exists |-> TRUE,
            lines |-> SelectSeq([i \in 1..Len(file.lines) |-> file.lines[o[i]]], KeepLine)] :
             o \in { p \in Orders(1..Len(file.lines)) :
                       \A i, j \in 1..Len(p) : i < j =>
                          ~StrLess(Lower(file.lines[p[j]]), Lower(file.lines[p[i]])) } }

\* file_cleanup: the contents the file can have afterwards
CleanupOutcomes(file) ==
    IF ~file.exists THEN { file }
    ELSE { [exists |-> TRUE, lines |-> SelectSeq(o, KeepLine)] :
             o \in SortedByLower(ReadLines(file.lines)) }

(***************************************************************************)
(* The store on its own: any sequence of appends and cleanups.             *)
(***************************************************************************)
\* find_s3, lines 398-404, plain mode: one page's matches are appended
StoreAppend ==
    /\ \E regex_results \in ListsUpTo(Values, MaxMatches) :
          /\ Len(txt.lines) + Cardinality(Range(regex_results)) <= MaxStore
          /\ txt' \in AppendOutcomes(txt, regex_results)
    /\ lastOp' = "append"
    /\ preCleanup' = <<>>
    /\ UNCHANGED <<csv, scanVars>>
    /\ UNCHANGED <<dlVars, nameVars, sessionVars, rlVars, keyVars, userVars, pinVars>>

\* file_cleanup(input_file, scan_context)
StoreCleanup ==
    /\ txt' \in CleanupOutcomes(txt)
    /\ preCleanup' = txt.lines
    /\ lastOp' = "cleanup"
    /\ UNCHANGED <<csv, scanVars>>
    /\ UNCHANGED <<dlVars, nameVars, sessionVars, rlVars, keyVars, userVars, pinVars>>

(***************************************************************************)
(* The provider's responses, as the decoded JSON the code reads.           *)
(***************************************************************************)
\* r = None
NoResponse ==
    [ok |-> TRUE, error |-> "none", has_payload |-> FALSE, page_count |-> 0, matches |-> <<>>]

\* {"ok": true, "messages": {"matches": [...], "pagination": {"page_count": n}}}
OkResponse(n, items) ==
    [ok |-> TRUE, error |-> "none", has_payload |-> TRUE, page_count |-> n, matches |-> items]

\* {"ok": false, "error": "ratelimited"}
RateLimitedResponse ==
    [ok |-> FALSE, error |-> "ratelimited", has_payload |-> FALSE, page_count |-> 0,
     matches |-> <<>>]

\* {"ok": false, "error": <anything else>}
ErrorResponse ==
    [ok |-> FALSE, error |-> "other", has_payload |-> FALSE, page_count |-> 0,
     matches |-> <<>>]

NeverRateLimited(resp) == FALSE
AnyFailureIsRateLimit(resp) == resp.ok = FALSE
\* sleep_if_rate_limited: its return value (it sleeps 60 seconds when it returns True)
sleep_if_rate_limited(resp) ==
    IF resp.ok # FALSE \/ resp.error # "ratelimited" THEN FALSE ELSE TRUE

\* the match lists a page's payload may yield in a scan:
\* none, or "com/archives/T" and "Ab" twice
PagePayloads == { <<>>, << ARCHIVE_MARKER \o <<84>>, <<65, 98>>, <<65, 98>> >> }

\* what the provider may answer to a discovery request (its matches are not read)
DiscoveryResponses(b, maxPages) ==
    { OkResponse(n, <<>>) : n \in 0..maxPages }
      \cup { ErrorResponse }
      \cup (IF b > 0 THEN { RateLimitedResponse } ELSE {})

\* what the provider may answer to the request for a page; the page count it
\* reports then may have grown since the discovery request
PageResponses(b, n) ==
    { OkResponse(n, items) : items \in PagePayloads }
      \cup { OkResponse(n + 1, <<>>) }
      \cup { ErrorResponse }
      \cup (IF b > 0 THEN { RateLimitedResponse } ELSE {})

\* the queries of the category, in list order (the first two of the four)
S3_QUERIES == << "s3.amazonaws.com", "s3://" >>
Queries == Range(S3_QUERIES)
NoFailure == [phase |-> "none", query |-> "", page |-> 0]
NoRequest == [phase |-> "none", query |-> "", page |-> 0]

(***************************************************************************)
(* One message-search scan: find_s3 (find_credentials, find_aws_keys and   *)
(* find_interesting_links have the same body).                             *)
(***************************************************************************)
NoCsv == [exists |-> FALSE, rows |-> <<>>]
\* writer.writerow(CSV_HEADERS)
HeaderRow == [header |-> TRUE, regex_results |-> {}]
\* write_to_csv: one row per item of response['messages']['matches']
RowOf(item) == [header |-> FALSE, regex_results |-> {item}]

OneRowPerPage(rows, response) ==
    rows \o << [header |-> FALSE, regex_results |-> Range(response.matches)] >>
\* write_to_csv: for match in response['messages']['matches'], in list
\* order, the pattern is applied to str(match) and one row is written
write_to_csv(rows, response) ==
    rows \o [i \in 1..Len(response.matches) |-> RowOf(response.matches[i])]

\* page_count_by_query[query]
PageCountOf(q) ==
    LET S == { i \in 1..Len(page_count_by_query) : page_count_by_query[i].query = q }
    IN  IF S = {} THEN 0 ELSE page_count_by_query[CHOOSE i \in S : TRUE].page_count

DrainsAtLeastOnce(p, page_count) == p = 1 \/ p <= page_count
StopsOnePageEarly(p, page_count) == p < page_count
DrainsOneMore(p, page_count) == p <= page_count + 1
\* while page <= page_count
DrainContinues(p, page_count) == p <= page_count

AlwaysStructured(v) == TRUE
\* if verbose: write_to_csv(...) else: append to the plain-text file
WritesCsv(v) == v

SkipsAPage(p) == p + 2
\* page += 1
NextPage(p) == p + 1

ResumesLoop(phase) == IF phase = "drain" THEN "drain_page" ELSE "discover"
\* except requests.exceptions.RequestException: control leaves the try block
AfterTransportFailure(phase) == "cleanup"

Inc(f, q) == [f EXCEPT ![q] = @ + 1]

AfterFirstQuery(i) == TRUE
\* for query in S3_QUERIES: the loop ends after the last query of the list
DiscoveryDone(i) == i = Len(S3_QUERIES)

\* lines 366-377: one iteration of the discovery loop of query qi
DiscoveryRequest ==
    /\ pc = "discover"
    /\ nreq' = Inc(nreq, S3_QUERIES[qi])
    /\ discReqs' = Inc(discReqs, S3_QUERIES[qi])
    /\ lastReq' = [phase |-> "discovery", query |-> S3_QUERIES[qi], page |-> 1]
    /\ \/ \* requests.get raises a RequestException
          /\ failedAt' = [phase |-> "discovery", query |-> S3_QUERIES[qi], page |-> 1]
          /\ pc' = AfterTransportFailure("discovery")
          /\ UNCHANGED <<r, qi, page_count_by_query, discSleeps, discLimited, recorded,
                         budget>>
       \/ \E resp \in DiscoveryResponses(budget, MaxPages) :
            /\ r' = resp
            /\ budget' = IF resp.error = "ratelimited" THEN budget - 1 ELSE budget
            /\ discLimited' = IF resp.error = "ratelimited" THEN Inc(discLimited, S3_QUERIES[qi])
                              ELSE discLimited
            /\ IF sleep_if_rate_limited(resp)
               THEN \* slept 60 seconds; the while True loop repeats the request
                    /\ discSleeps' = Inc(discSleeps, S3_QUERIES[qi])
                    /\ UNCHANGED <<pc, qi, page_count_by_query, recorded>>
               ELSE /\ UNCHANGED discSleeps
                    /\ IF ~resp.has_payload
                       THEN \* r['messages'] raises KeyError, which nothing catches
                            /\ pc' = "crashed"
                            /\ UNCHANGED <<qi, page_count_by_query, recorded>>
                       ELSE /\ page_count_by_query' =
                                 Append(page_count_by_query,
                                        [query |-> S3_QUERIES[qi], page_count |-> resp.page_count])
                            /\ recorded' = Inc(recorded, S3_QUERIES[qi])
                            /\ qi' = qi + 1
                            /\ pc' = IF DiscoveryDone(qi) THEN "header" ELSE "discover"
            /\ UNCHANGED failedAt
    /\ UNCHANGED <<storeVars, verbose, dq, page, nproc, drainSleeps>>
    /\ UNCHANGED <<dlVars, nameVars, sessionVars, rlVars, keyVars, userVars, pinVars>>

\* lines 379-382: in verbose mode the header row is appended to the .csv file
WriteCsvHeader ==
    /\ pc = "header"
    /\ csv' = IF verbose THEN [exists |-> TRUE, rows |-> Append(csv.rows, HeaderRow)] ELSE csv
    /\ pc' = "drain_query"
    /\ UNCHANGED <<txt, lastOp, preCleanup, verbose, qi, page_count_by_query, r, dq, page,
                   lastReq, nreq, nproc, discSleeps, discLimited, discReqs, recorded,
                   drainSleeps, failedAt, budget>>
    /\ UNCHANGED <<dlVars, nameVars, sessionVars, rlVars, keyVars, userVars, pinVars>>

\* line 384-385: for query, page_count in page_count_by_query.items(): page = 1
DrainNextQuery ==
    /\ pc = "drain_query"
    /\ IF dq > Len(page_count_by_query)
       THEN pc' = "cleanup" /\ UNCHANGED page
       ELSE pc' = "drain_page" /\ page' = 1
    /\ UNCHANGED <<storeVars, verbose, qi, page_count_by_query, r, dq, lastReq, nreq, nproc,
                   discSleeps, discLimited, discReqs, recorded, drainSleeps, failedAt,
                   budget>>
    /\ UNCHANGED <<dlVars, nameVars, sessionVars, rlVars, keyVars, userVars, pinVars>>

\* lines 386-405: the while test and one iteration of the drain loop
DrainPage ==
    /\ pc = "drain_page"
    /\ LET query == page_count_by_query[dq].query
           page_count == page_count_by_query[dq].page_count
       IN
       IF ~DrainContinues(page, page_count)
       THEN /\ dq' = dq + 1
            /\ pc' = "drain_query"
            /\ UNCHANGED <<storeVars, r, page, lastReq, nreq, nproc, drainSleeps,
                           failedAt, budget>>
       ELSE \* sleep_if_rate_limited(r) looks at the previous response
            /\ drainSleeps' = IF sleep_if_rate_limited(r) THEN drainSleeps + 1
                              ELSE drainSleeps
            /\ nreq' = Inc(nreq, query)
            /\ lastReq' = [phase |-> "drain", query |-> query, page |-> page]
            /\ \/ \* requests.get raises a RequestException
                  /\ failedAt' = [phase |-> "drain", query |-> query, page |-> page]
                  /\ pc' = AfterTransportFailure("drain")
                  /\ UNCHANGED <<storeVars, r, dq, page, nproc, budget>>
               \/ \E resp \in PageResponses(budget, page_count) :
                    /\ r' = resp
                    /\ budget' = IF resp.error = "ratelimited" THEN budget - 1 ELSE budget
                    \* regex_results = re.findall(S3_REGEX, str(r))
                    /\ nproc' = Inc(nproc, query)
                    /\ IF WritesCsv(verbose)
                       THEN IF ~resp.has_payload
                            THEN \* write_to_csv: response['messages'] raises KeyError
                                 /\ pc' = "crashed"
                                 /\ UNCHANGED <<storeVars, page>>
                            ELSE /\ csv' = [exists |-> TRUE,
                                            rows |-> write_to_csv(csv.rows, resp)]
                                 /\ page' = NextPage(page)
                                 /\ UNCHANGED <<pc, txt, lastOp, preCleanup>>
                       ELSE /\ Len(txt.lines) + Cardinality(Range(resp.matches)) <= MaxScanLines
                            /\ txt' \in AppendOutcomes(txt, resp.matches)
                            /\ lastOp' = "append"
                            /\ page' = NextPage(page)
                            /\ UNCHANGED <<pc, csv, preCleanup>>
                    /\ UNCHANGED <<dq, failedAt>>
    /\ UNCHANGED <<verbose, qi, page_count_by_query, discSleeps, discLimited, discReqs,
                   recorded>>
    /\ UNCHANGED <<dlVars, nameVars, sessionVars, rlVars, keyVars, userVars, pinVars>>

CleanupFiltersCsv(file) == [file EXCEPT !.rows = SelectSeq(file.rows, LAMBDA row : row.header)]
\* file_cleanup is given FILE_S3, the name of the plain-text file; the .csv
\* file is opened by write_to_csv and by the header write only
CsvAfterCleanup(file) == file

\* line 409: file_cleanup(input_file=FILE_S3, ...), then the function returns
ScanCleanup ==
    /\ pc = "cleanup"
    /\ txt' \in CleanupOutcomes(txt)
    /\ csv' = CsvAfterCleanup(csv)
    /\ preCleanup' = txt.lines
    /\ lastOp' = "cleanup"
    /\ pc' = "done"
    /\ UNCHANGED <<verbose, qi, page_count_by_query, r, dq, page, lastReq, nreq, nproc,
                   discSleeps, discLimited, discReqs, recorded, drainSleeps, failedAt,
                   budget>>
    /\ UNCHANGED <<dlVars, nameVars, sessionVars, rlVars, keyVars, userVars, pinVars>>

(***************************************************************************)
(* download_interesting_files: file search, then batched downloads by      *)
(* worker processes that report through a shared queue.                    *)
(***************************************************************************)
\* the file queries, in list order (the first two of the fifteen)
INTERESTING_FILE_QUERIES == << ".config", ".doc" >>
FileQueries == Range(INTERESTING_FILE_QUERIES)

\* the file ids the provider knows
FileIds == { "F1", "F2", "F3" }

\* the lists of file ids response_json['files']['matches'] may hold
FilePayloads == { <<>>, << "F1" >>, << "F1", "F2" >>, << "F3", "F1" >>, << "F2", "F2" >> }

NoPage == << "", 0 >>

\* Process(target=_download_file, args=file_dl_args), not yet started
NewProcess(id, origin) ==
    [id |-> id, origin |-> origin, state |-> "created", starts |-> 0, attempts |-> 0,
     outcome |-> "none"]

\* request.is_alive()
IsAlive(p) == p.state \in {"alive", "finishing"}

EveryFileIsNew(id, seen) == TRUE
\* new_file['id'] not in unique_file_id
IsNewFile(id, seen) == id \notin seen

\* lines 829-836: the processes created for one page, given the ids already seen.
\* The list new_files is built before any id of the page is added to the set.
NewProcesses(matches, seen, origin) ==
    LET new_files == SelectSeq(matches, LAMBDA id : IsNewFile(id, seen))
    IN  [k \in 1..Len(new_files) |-> NewProcess(new_files[k], origin)]

\* the number of times a list holds x
CountIn(list, x) == Cardinality({ k \in 1..Len(list) : list[k] = x })

SkipsATask(i) == i + DOWNLOAD_BATCH_SIZE + 1
\* range(0, len(file_requests), DOWNLOAD_BATCH_SIZE): the start after i
NextBatchStart(i) == i + DOWNLOAD_BATCH_SIZE

\* file_requests[i:i+DOWNLOAD_BATCH_SIZE], as 1-based indices
BatchIndices(i) ==
    { k \in 1..Len(file_requests) : i < k /\ k <= i + DOWNLOAD_BATCH_SIZE }

NeverWaits(i) == FALSE
\* any(request for request in file_requests if request.is_alive())
BatchIncomplete(i) == \E k \in BatchIndices(i) : IsAlive(file_requests[k])

\* what the provider may answer to the request for a page of files
FileResponses(b, n) ==
    { OkResponse(n, items) : items \in FilePayloads }
      \cup { ErrorResponse }
      \cup (IF b > 0 THEN { RateLimitedResponse } ELSE {})

workerVars == <<file_requests, completed_file_names>>
searchVars == <<fqi, page_counts_by_query, response_json, fdq, fpage, unique_file_id,
                firstSeen, firstCount, dbudget, dfailed>>

\* lines 807-814: one iteration of the discovery loop of file query fqi
StartsWhatWasFound(phase) == IF phase = "drain" THEN "dispatch" ELSE "report"
\* the search and the dispatch of the batches stand in one try statement:
\* the except clause of line 854 is followed by the final message
AfterFileSearchFailure(phase) == "report"

FileDiscoveryRequest ==
    /\ dpc = "discover"
    /\ \/ \* requests.get raises a RequestException: control goes to line 854
          /\ dfailed' = TRUE
          /\ dpc' = AfterFileSearchFailure("discovery")
          /\ UNCHANGED <<fqi, page_counts_by_query, response_json, dbudget>>
       \/ \E resp \in DiscoveryResponses(dbudget, MaxFilePages) :
            /\ response_json' = resp
            /\ dbudget' = IF resp.error = "ratelimited" THEN dbudget - 1 ELSE dbudget
            /\ IF sleep_if_rate_limited(resp)
               THEN UNCHANGED <<dpc, fqi, page_counts_by_query>>
               ELSE IF ~resp.has_payload
                    THEN \* response_json['files'] raises KeyError, which nothing catches
                         /\ dpc' = "crashed"
                         /\ UNCHANGED <<fqi, page_counts_by_query>>
                    ELSE /\ page_counts_by_query' =
                              Append(page_counts_by_query,
                                     [query |-> INTERESTING_FILE_QUERIES[fqi],
                                      page_count |-> resp.page_count])
                         /\ fqi' = fqi + 1
                         /\ dpc' = IF fqi = Len(INTERESTING_FILE_QUERIES)
                                   THEN "drain_query" ELSE "discover"
            /\ UNCHANGED dfailed
    /\ UNCHANGED <<fdq, fpage, unique_file_id, firstSeen, firstCount>>
    /\ UNCHANGED <<workerVars, batchStart, nextStart, printed, reported>>
    /\ UNCHANGED <<storeVars, scanVars, nameVars, sessionVars, rlVars, keyVars, userVars, pinVars>>

\* lines 817-818: for query, page_count in page_counts_by_query.items(): page = 1
\* When the loop is exhausted the search is over: its locals (the page counts,
\* the loop counters, the last response) are never read again, no further
\* search request is sent, and the model stops recording them.
FileDrainNextQuery ==
    /\ dpc = "drain_query"
    /\ IF fdq > Len(page_counts_by_query)
       THEN /\ dpc' = "dispatch"
            /\ page_counts_by_query' = <<>>
            /\ response_json' = NoResponse
            /\ fdq' = 1
            /\ fpage' = 1
            /\ dbudget' = 0
       ELSE /\ dpc' = "drain_page"
            /\ fpage' = 1
            /\ UNCHANGED <<page_counts_by_query, response_json, fdq, dbudget>>
    /\ UNCHANGED <<fqi, unique_file_id, firstSeen, firstCount, dfailed>>
    /\ UNCHANGED <<workerVars, batchStart, nextStart, printed, reported>>
    /\ UNCHANGED <<storeVars, scanVars, nameVars, sessionVars, rlVars, keyVars, userVars, pinVars>>

AdvancesAfterRateLimit(p) == p + 1
\* page += 1 stands inside `if not sleep_if_rate_limited(response_json)`
PageAfterRateLimit(p) == p

\* lines 819-837: the while test and one iteration of the file drain loop
FileDrainPage ==
    /\ dpc = "drain_page"
    /\ LET query == page_counts_by_query[fdq].query
           page_count == page_counts_by_query[fdq].page_count
           origin == << query, fpage >>
       IN
       IF ~(fpage <= page_count)
       THEN /\ fdq' = fdq + 1
            /\ dpc' = "drain_query"
            /\ UNCHANGED <<response_json, fpage, unique_file_id, file_requests,
                           firstSeen, firstCount, dbudget, dfailed>>
       ELSE /\ \/ \* requests.get raises a RequestException: control goes to line 854
                  /\ dfailed' = TRUE
                  /\ dpc' = AfterFileSearchFailure("drain")
                  /\ UNCHANGED <<response_json, fdq, fpage, unique_file_id, file_requests,
                                 firstSeen, firstCount, dbudget>>
               \/ \E resp \in FileResponses(dbudget, page_count) :
                    /\ response_json' = resp
                    /\ dbudget' = IF resp.error = "ratelimited" THEN dbudget - 1 ELSE dbudget
                    /\ IF sleep_if_rate_limited(resp)
                       THEN \* slept 60 seconds; the while test comes next
                            /\ fpage' = PageAfterRateLimit(fpage)
                            /\ UNCHANGED <<dpc, unique_file_id, file_requests,
                                           firstSeen, firstCount>>
                       ELSE IF ~resp.has_payload
                            THEN \* response_json['files'] raises KeyError
                                 /\ dpc' = "crashed"
                                 /\ UNCHANGED <<fpage, unique_file_id, file_requests,
                                                firstSeen, firstCount>>
                            ELSE LET created == NewProcesses(resp.matches, unique_file_id,
                                                             origin)
                                 IN  /\ Len(file_requests) + Len(created) <= MaxTasks
                                     /\ file_requests' = file_requests \o created
                                     /\ unique_file_id' =
                                           unique_file_id
                                             \cup { created[k].id : k \in 1..Len(created) }
                                     /\ firstSeen' =
                                           [id \in FileIds |->
                                              IF firstCount[id] = 0
                                                 /\ CountIn(resp.matches, id) > 0
                                              THEN origin ELSE firstSeen[id]]
                                     /\ firstCount' =
                                           [id \in FileIds |->
                                              IF firstCount[id] = 0
                                              THEN CountIn(resp.matches, id)
                                              ELSE firstCount[id]]
                                     /\ fpage' = fpage + 1
                                     /\ UNCHANGED dpc
                    /\ UNCHANGED <<fdq, dfailed>>
    /\ UNCHANGED <<fqi, page_counts_by_query, completed_file_names, batchStart, nextStart,
                   printed, reported>>
    /\ UNCHANGED <<storeVars, scanVars, nameVars, sessionVars, rlVars, keyVars, userVars, pinVars>>

\* lines 839-849: if file_requests: for batch in file_batches: the next batch, if any
NextBatch ==
    /\ dpc = "dispatch"
    /\ IF file_requests = <<>> \/ batchStart >= Len(file_requests)
       THEN dpc' = "final_drain" /\ UNCHANGED nextStart
       ELSE dpc' = "start" /\ nextStart' = batchStart + 1
    /\ UNCHANGED <<searchVars, workerVars, batchStart, printed, reported>>
    /\ UNCHANGED <<storeVars, scanVars, nameVars, sessionVars, rlVars, keyVars, userVars, pinVars>>

\* lines 756-759: request.start() for the next process of the batch
StartWorker ==
    /\ dpc = "start"
    /\ file_requests' = [file_requests EXCEPT ![nextStart] =
                            [@ EXCEPT !.state = "alive", !.starts = @ + 1]]
    /\ nextStart' = nextStart + 1
    /\ dpc' = IF nextStart + 1 \in BatchIndices(batchStart) THEN "start" ELSE "poll_get"
    /\ UNCHANGED <<searchVars, completed_file_names, batchStart, printed, reported>>
    /\ UNCHANGED <<storeVars, scanVars, nameVars, sessionVars, rlVars, keyVars, userVars, pinVars>>

\* lines 761-766: completed_file_names.get(timeout=POLL_TIMEOUT), queue.Empty ignored
PollGet ==
    /\ dpc = "poll_get"
    /\ IF completed_file_names # <<>>
       THEN /\ printed' = printed + 1
            /\ completed_file_names' = Tail(completed_file_names)
       ELSE UNCHANGED <<printed, completed_file_names>>
    /\ dpc' = "poll_check"
    /\ UNCHANGED <<searchVars, file_requests, batchStart, nextStart, reported>>
    /\ UNCHANGED <<storeVars, scanVars, nameVars, sessionVars, rlVars, keyVars, userVars, pinVars>>

\* line 767 and the while test of line 760
PollCheck ==
    /\ dpc = "poll_check"
    /\ IF BatchIncomplete(batchStart)
       THEN dpc' = "poll_get" /\ UNCHANGED batchStart
       ELSE dpc' = "dispatch" /\ batchStart' = NextBatchStart(batchStart)
    /\ UNCHANGED <<searchVars, workerVars, nextStart, printed, reported>>
    /\ UNCHANGED <<storeVars, scanVars, nameVars, sessionVars, rlVars, keyVars, userVars, pinVars>>

\* completed_file_names.empty()
QueueEmpty(q) == q = <<>>

\* lines 851-852: while not completed_file_names.empty(): get_nowait()
FinalDrain ==
    /\ dpc = "final_drain"
    /\ IF ~QueueEmpty(completed_file_names)
       THEN /\ printed' = printed + 1
            /\ completed_file_names' = Tail(completed_file_names)
            /\ UNCHANGED dpc
       ELSE /\ dpc' = "report"
            /\ UNCHANGED <<printed, completed_file_names>>
    /\ UNCHANGED <<searchVars, file_requests, batchStart, nextStart, reported>>
    /\ UNCHANGED <<storeVars, scanVars, nameVars, sessionVars, rlVars, keyVars, userVars, pinVars>>

\* lines 857-866: the final message, then the function returns
Report ==
    /\ dpc = "report"
    /\ reported' = IF file_requests # <<>> THEN Len(file_requests) ELSE 0
    /\ dpc' = "done"
    /\ UNCHANGED <<searchVars, workerVars, batchStart, nextStart, printed>>
    /\ UNCHANGED <<storeVars, scanVars, nameVars, sessionVars, rlVars, keyVars, userVars, pinVars>>

RetriesOnce(p, outcome) ==
    IF outcome = "transport_failure" /\ p.attempts = 0 THEN "alive" ELSE "finishing"
\* _download_file has no loop: after the try statement, whichever way it
\* ended, the function returns
StateAfterDownload(p, outcome) == "finishing"

\* _download_file, lines 772-784: the GET, the write of the file and the q.put
WorkerDownload(k) ==
    /\ k \in 1..Len(file_requests)
    /\ file_requests[k].state = "alive"
    /\ \E outcome \in {"ok", "transport_failure", "write_failure"} :
          /\ file_requests' = [file_requests EXCEPT ![k] =
                                  [@ EXCEPT !.state = StateAfterDownload(file_requests[k], outcome),
                                            !.attempts = @ + 1,
                                            !.outcome = outcome]]
          /\ completed_file_names' =
                CASE outcome = "ok" ->
                       Append(completed_file_names, [task |-> k, kind |-> "success"])
                  [] outcome = "transport_failure" ->
                       Append(completed_file_names, [task |-> k, kind |-> "error"])
                  [] OTHER -> \* open or write raises OSError: nothing is put
                       completed_file_names
    /\ UNCHANGED <<dpc, searchVars, batchStart, nextStart, printed, reported>>
    /\ UNCHANGED <<storeVars, scanVars, nameVars, sessionVars, rlVars, keyVars, userVars, pinVars>>

\* the worker process ends
WorkerExit(k) ==
    /\ k \in 1..Len(file_requests)
    /\ file_requests[k].state = "finishing"
    /\ file_requests' = [file_requests EXCEPT ![k] = [@ EXCEPT !.state = "dead"]]
    /\ UNCHANGED <<dpc, searchVars, completed_file_names, batchStart, nextStart, printed,
                   reported>>
    /\ UNCHANGED <<storeVars, scanVars, nameVars, sessionVars, rlVars, keyVars, userVars, pinVars>>

(***************************************************************************)
(* The download target name (download_interesting_files, lines 802, 833,   *)
(* 834).                                                                   *)
(***************************************************************************)
UNDERSCORE == <<95>>
HYPHEN == <<45>>

\* the characters a file name may be made of:
\* / \ : * ? " < > | and a _ . -
NameChars == { 47, 92, 58, 42, 63, 34, 60, 62, 124, 97, 95, 46, 45 }

\* the ids a match may carry: "F1" and "F/"
NameIds == { <<70, 49>>, <<70, 47>> }

BadCharsWithoutBackslash == { 47, 58, 42, 63, 34, 60, 62, 124 }
\* re.compile('[/:*?"<>|\\\]'): the class holds / : * ? " < > | and the
\* backslash (written \\ in the pattern)
bad_chars_re == { 47, 58, 42, 63, 34, 60, 62, 124, 92 }

\* bad_chars_re.sub('_', file_name)
Sub(re, repl, string) ==
    [i \in 1..Len(string) |-> IF string[i] \in re THEN repl[1] ELSE string[i]]

\* new_file['id'] + "-" + new_file['name']
FileName(f) == f.id \o HYPHEN \o f.name

\* lines 833-834
BuildFileName ==
    /\ safe_filename = <<>>
    /\ safe_filename' = Sub(bad_chars_re, UNDERSCORE, FileName(new_file))
    /\ UNCHANGED new_file
    /\ UNCHANGED <<storeVars, scanVars, dlVars, sessionVars, rlVars, keyVars, userVars, pinVars>>

(***************************************************************************)
(* One session: credential validation, the output directory and the        *)
(* dispatch of the scans, from __main__ (scan flags) or from               *)
(* _interactive_command_line.  A scan is followed as far as the session    *)
(* sees it: its store appends, the way its requests ended, its cleanup and *)
(* its return.                                                             *)
(***************************************************************************)
\* lines 1135-1145
flags_and_scans ==
    << [flag |-> "team_access_logs", scan |-> "dump_team_access_logs"],
       [flag |-> "user_list", scan |-> "dump_user_list"],
       [flag |-> "s3_scan", scan |-> "find_s3"],
       [flag |-> "credential_scan", scan |-> "find_credentials"],
       [flag |-> "aws_key_scan", scan |-> "find_aws_keys"],
       [flag |-> "private_key_scan", scan |-> "find_private_keys"],
       [flag |-> "pinned_message_scan", scan |-> "find_pinned_messages"],
       [flag |-> "link_scan", scan |-> "find_interesting_links"],
       [flag |-> "file_download", scan |-> "download_interesting_files"] >>

ScanFlags == { flags_and_scans[i].flag : i \in 1..Len(flags_and_scans) }

NoFlags == [f \in ScanFlags |-> "None"]

\* the scan functions whose last statement before the closing message is
\* file_cleanup(...): lines 409, 463, 511 and 745
CallsFileCleanup(scan) ==
    scan \in {"find_s3", "find_credentials", "find_aws_keys", "find_interesting_links"}

\* _choose_scans: scan_options, lines 931-945
scan_options ==
    [key \in {"A", "0", "1", "2", "3", "4", "5", "6", "7", "8"} |->
        CASE key = "A" -> << "dump_team_access_logs", "dump_user_list", "find_s3",
                             "find_credentials", "find_aws_keys", "find_private_keys",
                             "find_pinned_messages", "find_interesting_links",
                             "download_interesting_files" >>
          [] key = "0" -> << "dump_team_access_logs" >>
          [] key = "1" -> << "dump_user_list" >>
          [] key = "2" -> << "find_s3" >>
          [] key = "3" -> << "find_credentials" >>
          [] key = "4" -> << "find_aws_keys" >>
          [] key = "5" -> << "find_private_keys" >>
          [] key = "6" -> << "find_pinned_messages" >>
          [] key = "7" -> << "find_interesting_links" >>
          [] key = "8" -> << "download_interesting_files" >>]

\* the selections typed at the prompt of _choose_scans
SelectionLists ==
    { <<>>, << "A" >>, << "2" >>, << "7", "2" >>, << "5", "5" >>, << "A", "2" >>, << "9" >> }

\* lines 967-977: selected_scans.extend(scan_options[s][1]) for every option
RECURSIVE ExtendAll(_)
ExtendAll(selection_list) ==
    IF selection_list = <<>> THEN <<>>
    ELSE scan_options[Head(selection_list)] \o ExtendAll(Tail(selection_list))

\* _choose_scans: the list of scans, empty when the function returns [] or None
ChooseScans(selection_list) ==
    IF selection_list = <<>> THEN <<>>
    ELSE IF "A" \in Range(selection_list) /\ Len(selection_list) > 1 THEN <<>>
    ELSE IF \E i \in 1..Len(selection_list) : selection_list[i] \notin DOMAIN scan_options
         THEN <<>>
    ELSE ExtendAll(selection_list)

\* lines 1156-1158
no_flags_specified == \A f \in ScanFlags : flags[f] = "None"
any_true == \E f \in ScanFlags : flags[f] = "True"
any_false == \E f \in ScanFlags : flags[f] = "False"

\* the list the dispatch loop iterates: lines 1161, 1168, 1172 and 1040
RunList ==
    IF interactive THEN selected_scans
    ELSE [i \in 1..Len(flags_and_scans) |-> flags_and_scans[i].scan]

RunsEveryScan(i) == TRUE
\* whether the loop calls the scan at position i: lines 1160-1175
RunsScan(i) ==
    IF interactive THEN TRUE
    ELSE IF no_flags_specified THEN TRUE
    ELSE IF any_true THEN flags[flags_and_scans[i].flag] = "True"
    ELSE flags[flags_and_scans[i].flag] # "False"

ToleratesNone(context) == "value"
\* collected_scan_context.output_directory (line 1124) and
\* collected_scan_context.slack_workspace (line 1033): None has no attributes
AttributeOf(context) == IF context = "None" THEN "AttributeError" ELSE "value"

FailurePropagates(o) == IF o = "completed" THEN "after_scan" ELSE "crashed"
\* where a scan function goes when its requests have ended: a
\* RequestException is caught by the function's except clause, a KeyError
\* on an unexpected response is not caught anywhere
AfterRequests(o) == IF o = "key_error" THEN "crashed" ELSE "after_scan"

\* __main__ lines 1109-1121 and _interactive_command_line lines 986-1024:
\* the checks made before the first token is validated
SessionStart ==
    /\ spc = "start"
    /\ spc' = IF interactive /\ (~no_flags_specified \/ selected_scans = <<>>)
              THEN "returned" ELSE "validate"
    /\ UNCHANGED <<interactive, flags, provided_tokens, selected_scans, ti, auth,
                   scan_context, validated, directories, writers, si, invoked, appends,
                   ended, failures>>
    /\ UNCHANGED <<storeVars, scanVars, dlVars, nameVars, rlVars, keyVars, userVars, pinVars>>

\* init_scanning_context, lines 221-244
Validate ==
    /\ spc = "validate"
    /\ \E result \in {"valid", "invalid", "transport_failure"} :
          /\ auth' = result
          /\ CASE result = "valid" ->
                     /\ scan_context' = "context"
                     /\ validated' = validated \cup {ti}
                     /\ spc' = "use_context"
              [] result = "invalid" ->
                     \* "Token not valid", exit()
                     /\ spc' = "exited"
                     /\ UNCHANGED <<scan_context, validated>>
              [] OTHER ->
                     \* the RequestException is printed and result = None is returned
                     /\ scan_context' = "None"
                     /\ spc' = "use_context"
                     /\ UNCHANGED validated
    /\ UNCHANGED <<interactive, flags, provided_tokens, selected_scans, ti,
                   directories, writers, si, invoked, appends, ended, failures>>
    /\ UNCHANGED <<storeVars, scanVars, dlVars, nameVars, rlVars, keyVars, userVars, pinVars>>

\* lines 1124 and 1030-1038: the context's attributes are read and the output
\* directory is created
MakeOutputDirectory ==
    /\ spc = "use_context"
    /\ IF AttributeOf(scan_context) = "AttributeError"
       THEN spc' = "crashed" /\ UNCHANGED directories
       ELSE /\ directories' = directories \cup {ti}
            /\ spc' = "select"
    /\ UNCHANGED <<interactive, flags, provided_tokens, selected_scans, ti, auth,
                   scan_context, validated, writers, si, invoked, appends, ended,
                   failures>>
    /\ UNCHANGED <<storeVars, scanVars, dlVars, nameVars, rlVars, keyVars, userVars, pinVars>>

\* lines 1160-1166: enable and disable flags may not be mixed
SelectScans ==
    /\ spc = "select"
    /\ IF ~interactive /\ ~no_flags_specified /\ any_true /\ any_false
       THEN spc' = "exited" /\ UNCHANGED si
       ELSE spc' = "dispatch" /\ si' = 1
    /\ UNCHANGED <<interactive, flags, provided_tokens, selected_scans, ti, auth,
                   scan_context, validated, directories, writers, invoked, appends,
                   ended, failures>>
    /\ UNCHANGED <<storeVars, scanVars, dlVars, nameVars, rlVars, keyVars, userVars, pinVars>>

\* one iteration of the dispatch loop (lines 1161-1175, 1040-1041), and of
\* the token loop of the interactive mode (line 1026) when it is exhausted
DispatchNext ==
    /\ spc = "dispatch"
    /\ IF si > Len(RunList)
       THEN /\ IF interactive /\ ti < provided_tokens
               THEN spc' = "validate" /\ ti' = ti + 1
               ELSE spc' = "done" /\ UNCHANGED ti
            /\ UNCHANGED <<si, invoked, appends, ended>>
       ELSE IF RunsScan(si)
            THEN /\ invoked' = Append(invoked, [scan |-> RunList[si], token |-> ti,
                                                cleanups |-> 0])
                 /\ appends' = 0
                 /\ ended' = "none"
                 /\ spc' = "scan"
                 /\ UNCHANGED <<si, ti>>
            ELSE /\ si' = si + 1
                 /\ UNCHANGED <<spc, ti, invoked, appends, ended>>
    /\ UNCHANGED <<interactive, flags, provided_tokens, selected_scans, auth,
                   scan_context, validated, directories, writers, failures>>
    /\ UNCHANGED <<storeVars, scanVars, dlVars, nameVars, rlVars, keyVars, userVars, pinVars>>

\* the body of the running scan function: it appends to its store, or its
\* requests end (all pages read, a RequestException, or a KeyError)
ScanStep ==
    /\ spc = "scan"
    /\ \/ /\ appends < MaxAppends
          /\ appends' = appends + 1
          /\ writers' = writers \cup {ti}
          /\ UNCHANGED <<spc, ended>>
       \/ \E o \in {"completed", "transport_failure", "key_error"} :
             /\ ended' = o
             /\ spc' = AfterRequests(o)
             /\ UNCHANGED <<appends, writers>>
    /\ UNCHANGED <<interactive, flags, provided_tokens, selected_scans, ti, auth,
                   scan_context, validated, directories, si, invoked, failures>>
    /\ UNCHANGED <<storeVars, scanVars, dlVars, nameVars, rlVars, keyVars, userVars, pinVars>>

\* the end of the scan function: file_cleanup where the function calls it,
\* the closing message and the return to the dispatch loop
ScanReturn ==
    /\ spc = "after_scan"
    /\ invoked' = IF CallsFileCleanup(invoked[Len(invoked)].scan)
                  THEN [invoked EXCEPT ![Len(invoked)].cleanups = @ + 1]
                  ELSE invoked
    /\ failures' = (failures \/ ended = "transport_failure")
    /\ si' = si + 1
    /\ spc' = "dispatch"
    /\ UNCHANGED <<interactive, flags, provided_tokens, selected_scans, ti, auth,
                   scan_context, validated, directories, writers, appends, ended>>
    /\ UNCHANGED <<storeVars, scanVars, dlVars, nameVars, rlVars, keyVars, userVars, pinVars>>

(***************************************************************************)
(* sleep_if_rate_limited on its own: the value it returns and the time it  *)
(* sleeps.                                                                 *)
(***************************************************************************)
\* time.sleep(60)
COOLDOWN == 60

\* the responses the function may be handed
CallInputs ==
    UNION { PageResponses(1, n) : n \in 0..MaxPages }

\* lines 153-160
CallSleepIfRateLimited ==
    /\ calls < MaxCalls
    /\ \E resp \in CallInputs :
          /\ slack_api_json_response' = resp
          /\ returned' = sleep_if_rate_limited(resp)
          /\ slept' = IF sleep_if_rate_limited(resp) THEN slept + COOLDOWN ELSE slept
    /\ calls' = calls + 1
    /\ UNCHANGED <<storeVars, scanVars, dlVars, nameVars, sessionVars, keyVars, userVars, pinVars>>

(***************************************************************************)
(* find_private_keys: what is written for one match of PRIVATE_KEYS_REGEX. *)
(***************************************************************************)
\* nothing has been written yet
NotWritten == << "not written" >>
BACKSLASH == <<92>>
\* the two characters backslash, n
ESCAPED_NEWLINE == <<92, 110>>
\* the characters of a message text: backslash, n, a line break, K
KeyChars == { 92, 110, 10, 75 }

\* w.replace('\\n', '\n'): from left to right, occurrences that do not overlap
RECURSIVE ReplaceEscapedNewline(_)
ReplaceEscapedNewline(w) ==
    IF Len(w) < 2 THEN w
    ELSE IF SubSeq(w, 1, 2) = ESCAPED_NEWLINE
         THEN NEWLINE \o ReplaceEscapedNewline(SubSeq(w, 3, Len(w)))
         ELSE << w[1] >> \o ReplaceEscapedNewline(Tail(w))

\* repr of a str: a backslash is doubled, a line break becomes backslash, n
RECURSIVE Repr(_)
Repr(w) ==
    IF w = <<>> THEN <<>>
    ELSE (IF w[1] = 92 THEN BACKSLASH \o BACKSLASH
          ELSE IF w[1] = 10 THEN ESCAPED_NEWLINE
          ELSE << w[1] >>) \o Repr(Tail(w))

\* the last field of a row: str of the set holding the one match, {'...'}
CsvField(w) == <<123, 39>> \o Repr(w) \o <<39, 125>>

\* lines 560-567 and write_to_csv, lines 623-626, for one match
PersistKey ==
    /\ persisted = NotWritten
    /\ persisted' = IF WritesCsv(verbose)
                    THEN \* write_to_csv works on the response, not on remove_new_line_char
                         CsvField(regex_result)
                    ELSE \* log_output.write(item + "\n\n")
                         ReplaceEscapedNewline(regex_result) \o NEWLINE \o NEWLINE
    /\ UNCHANGED regex_result
    /\ UNCHANGED <<storeVars, scanVars, dlVars, nameVars, sessionVars, rlVars, userVars, pinVars>>

(***************************************************************************)
(* dump_user_list: a first request with limit=1 and the empty cursor, then *)
(* requests with limit=MAX_RETRIEVAL_COUNT that follow next_cursor.        *)
(* Members are numbered 1, 2, ... in the order the provider lists them; a  *)
(* cursor is the number of the page it leads to, 0 the empty string.       *)
(***************************************************************************)
NoUserList == [exists |-> FALSE, members |-> <<>>]

\* {"ok": true, "members": [...], "response_metadata": {"next_cursor": c}}
UsersOk(members, next_cursor) ==
    [ok |-> TRUE, error |-> "none", has_members |-> TRUE, members |-> members,
     next_cursor |-> next_cursor]
\* {"ok": false, "error": e}
UsersFailed(e) ==
    [ok |-> FALSE, error |-> e, has_members |-> FALSE, members |-> <<>>, next_cursor |-> 0]

RECURSIVE MembersBefore(_)
\* the members the provider lists before page c: the first one and those of
\* the pages 1 .. c-1
MembersBefore(c) == IF c <= 1 THEN 1 ELSE MembersBefore(c - 1) + served[c - 1]

\* every member of the workspace
AllMembers == 1..MembersBefore(Len(served) + 1)

\* what users.list answers, when it answers with a page, to a request with
\* cursor c: the empty cursor yields the first member (limit=1)
UsersList(c) ==
    IF c = 0
    THEN UsersOk(<< 1 >>, IF Len(served) = 0 THEN 0 ELSE 1)
    ELSE UsersOk([i \in 1..served[c] |-> MembersBefore(c) + i],
                 IF c < Len(served) THEN c + 1 ELSE 0)

\* what the provider may answer to a users.list request with cursor c
UsersResponses(b, c) ==
    { UsersList(c), UsersFailed("other") }
      \cup (IF b > 0 THEN { UsersFailed("ratelimited") } ELSE {})

\* lines 328-338: one iteration of the first loop, and the test of r['ok']
UserProbe ==
    /\ upc = "probe"
    /\ Len(cursors) < MaxUserRequests
    /\ cursors' = Append(cursors, pagination_cursor)
    /\ \/ \* requests.get raises a RequestException: line 349
          /\ upc' = "report"
          /\ UNCHANGED <<pagination_cursor, users_r, ubudget>>
       \/ \E resp \in UsersResponses(ubudget, pagination_cursor) :
            /\ users_r' = resp
            /\ ubudget' = IF resp.error = "ratelimited" THEN ubudget - 1 ELSE ubudget
            /\ IF sleep_if_rate_limited(resp)
               THEN UNCHANGED <<upc, pagination_cursor>>
               ELSE IF ~resp.ok
                    THEN \* "Unable to dump the user list"
                         /\ upc' = "report"
                         /\ UNCHANGED pagination_cursor
                    ELSE /\ pagination_cursor' = resp.next_cursor
                         /\ upc' = "drain"
    /\ UNCHANGED <<served, results, user_list>>
    /\ UNCHANGED <<storeVars, scanVars, dlVars, nameVars, sessionVars, rlVars, keyVars,
                   pinVars>>

\* lines 344-346: the cursor is assigned inside `for value in r['members']`
CursorAfterPage(cursor, resp) ==
    IF resp.members = <<>> THEN cursor ELSE resp.next_cursor

\* lines 341-348: the while test and one iteration of the second loop, or
\* the json.dump that follows it
UserDrain ==
    /\ upc = "drain"
    /\ IF ~(users_r.ok /\ pagination_cursor # 0)
       THEN /\ user_list' = [exists |-> TRUE, members |-> user_list.members \o results]
            /\ upc' = "report"
            /\ UNCHANGED <<pagination_cursor, users_r, results, cursors, ubudget>>
       ELSE /\ Len(cursors) < MaxUserRequests
            /\ cursors' = Append(cursors, pagination_cursor)
            /\ \/ \* requests.get raises a RequestException: line 349
                  /\ upc' = "report"
                  /\ UNCHANGED <<pagination_cursor, users_r, results, ubudget>>
               \/ \E resp \in UsersResponses(ubudget, pagination_cursor) :
                    /\ users_r' = resp
                    /\ ubudget' = IF resp.error = "ratelimited" THEN ubudget - 1
                                  ELSE ubudget
                    /\ IF ~resp.has_members
                       THEN \* r['members'] raises KeyError, which nothing catches
                            /\ upc' = "crashed"
                            /\ UNCHANGED <<pagination_cursor, results>>
                       ELSE /\ results' = results \o resp.members
                            /\ pagination_cursor' = CursorAfterPage(pagination_cursor, resp)
                            /\ UNCHANGED upc
            /\ UNCHANGED user_list
    /\ UNCHANGED served
    /\ UNCHANGED <<storeVars, scanVars, dlVars, nameVars, sessionVars, rlVars, keyVars,
                   pinVars>>

\* lines 351-357: the closing message, then the function returns
UserReport ==
    /\ upc = "report"
    /\ upc' = "done"
    /\ UNCHANGED <<served, pagination_cursor, users_r, results, cursors, ubudget, user_list>>
    /\ UNCHANGED <<storeVars, scanVars, dlVars, nameVars, sessionVars, rlVars, keyVars,
                   pinVars>>

(***************************************************************************)
(* find_pinned_messages: one pins.list request per channel, repeated while *)
(* rate-limited; the texts are accumulated and written by _write_messages. *)
(***************************************************************************)
\* channel_list, as find_all_channels returned it: the channel names in the
\* order of the dictionary
CHANNELS == << "general", "private" >>

\* an item of r['items']: a pinned message with its text, or a pinned file
PinnedMessage(text) == [type |-> "message", text |-> text]
PinnedFile == [type |-> "file", text |-> "none"]

\* the lists r['items'] may hold for a channel
PinPayloads(channel_name) ==
    { <<>>,
      << PinnedMessage(<< channel_name, 1 >>) >>,
      << PinnedMessage(<< channel_name, 1 >>), PinnedFile,
         PinnedMessage(<< channel_name, 2 >>) >> }

\* {"ok": true, "items": [...]}, {"ok": false, "error": e}
PinsResponses(b, channel_name) ==
    { [ok |-> TRUE, error |-> "none", items |-> items] : items \in PinPayloads(channel_name) }
      \cup { [ok |-> FALSE, error |-> "other", items |-> <<>>] }
      \cup (IF b > 0 THEN { [ok |-> FALSE, error |-> "ratelimited", items |-> <<>>] } ELSE {})

\* "Channel [{}]: {}\n".format(channel_name, m.get('message', {}).get('text'))
\* for m in r.get('items', []) if m.get('type') == 'message'
ChannelPinnedMessages(channel_name, resp) ==
    LET messages == SelectSeq(resp.items, LAMBDA m : m.type = "message")
    IN  [i \in 1..Len(messages) |-> [channel |-> channel_name, text |-> messages[i].text]]

\* _write_messages: the contents are appended to the file, in order
_write_messages(file, contents) == file \o contents

KeepsAccumulator(contents) == contents
\* pinned_message_contents = []
ClearedAccumulator(contents) == <<>>

\* lines 661-680: one iteration of the while True loop of channel ci
PinsRequest ==
    /\ ppc = "channel"
    /\ \/ \* requests.get raises a RequestException: line 681
          /\ pfailed' = TRUE
          /\ ppc' = "finish"
          /\ UNCHANGED <<ci, pinned_message_contents, total_pinned_messages, pinned_file,
                         collected, pbudget>>
       \/ \E resp \in PinsResponses(pbudget, CHANNELS[ci]) :
            /\ pbudget' = IF resp.error = "ratelimited" THEN pbudget - 1 ELSE pbudget
            /\ IF sleep_if_rate_limited(resp)
               THEN \* what has been accumulated is written, then `continue`
                    /\ pinned_file' = _write_messages(pinned_file, pinned_message_contents)
                    /\ pinned_message_contents' = ClearedAccumulator(pinned_message_contents)
                    /\ UNCHANGED <<ppc, ci, total_pinned_messages, collected>>
               ELSE LET channel_pinned_messages == ChannelPinnedMessages(CHANNELS[ci], resp)
                    IN  /\ pinned_message_contents' =
                              pinned_message_contents \o channel_pinned_messages
                        /\ total_pinned_messages' =
                              total_pinned_messages + Len(channel_pinned_messages)
                        /\ collected' = collected \o channel_pinned_messages
                        /\ ci' = ci + 1
                        /\ ppc' = IF ci = Len(CHANNELS) THEN "finish" ELSE "channel"
                        /\ UNCHANGED pinned_file
            /\ UNCHANGED pfailed
    /\ UNCHANGED <<storeVars, scanVars, dlVars, nameVars, sessionVars, rlVars, keyVars,
                   userVars>>

\* lines 684-693: the last write and the closing message
PinsFinish ==
    /\ ppc = "finish"
    /\ pinned_file' = IF total_pinned_messages > 0
                      THEN _write_messages(pinned_file, pinned_message_contents)
                      ELSE pinned_file
    /\ ppc' = "done"
    /\ UNCHANGED <<ci, pinned_message_contents, total_pinned_messages, collected, pbudget,
                   pfailed>>
    /\ UNCHANGED <<storeVars, scanVars, dlVars, nameVars, sessionVars, rlVars, keyVars,
                   userVars>>

(***************************************************************************)
(* Specifications.                                                         *)
(***************************************************************************)
InitUser ==
    /\ upc = "probe"
    /\ served = <<>>
    /\ pagination_cursor = 0
    /\ users_r = UsersFailed("none")
    /\ results = <<>>
    /\ cursors = <<>>
    /\ ubudget = MaxUserRateLimited
    /\ user_list = NoUserList

InitPin ==
    /\ ppc = "channel"
    /\ ci = 1
    /\ pinned_message_contents = <<>>
    /\ total_pinned_messages = 0
    /\ pinned_file = <<>>
    /\ collected = <<>>
    /\ pbudget = MaxPinRateLimited
    /\ pfailed = FALSE

InitRateLimit ==
    /\ slack_api_json_response = NoResponse
    /\ returned = "none"
    /\ slept = 0
    /\ calls = 0

InitKey ==
    /\ regex_result = <<>>
    /\ persisted = NotWritten

InitSession ==
    /\ interactive = FALSE
    /\ flags = NoFlags
    /\ provided_tokens = 1
    /\ selected_scans = <<>>
    /\ spc = "start"
    /\ ti = 1
    /\ auth = "none"
    /\ scan_context = "None"
    /\ validated = {}
    /\ directories = {}
    /\ writers = {}
    /\ si = 1
    /\ invoked = <<>>
    /\ appends = 0
    /\ ended = "none"
    /\ failures = FALSE

InitName ==
    /\ new_file = [id |-> <<70, 49>>, name |-> <<>>]
    /\ safe_filename = <<>>

InitStore ==
    /\ txt = NoFile
    /\ csv = NoCsv
    /\ lastOp = "none"
    /\ preCleanup = <<>>

InitScan ==
    /\ pc = "discover"
    /\ qi = 1
    /\ page_count_by_query = <<>>
    /\ r = NoResponse
    /\ dq = 1
    /\ page = 1
    /\ lastReq = NoRequest
    /\ nreq = [q \in Queries |-> 0]
    /\ nproc = [q \in Queries |-> 0]
    /\ discSleeps = [q \in Queries |-> 0]
    /\ discLimited = [q \in Queries |-> 0]
    /\ discReqs = [q \in Queries |-> 0]
    /\ recorded = [q \in Queries |-> 0]
    /\ drainSleeps = 0
    /\ failedAt = NoFailure
    /\ budget = MaxRateLimited

InitDownload ==
    /\ dpc = "discover"
    /\ fqi = 1
    /\ page_counts_by_query = <<>>
    /\ response_json = NoResponse
    /\ fdq = 1
    /\ fpage = 1
    /\ unique_file_id = {}
    /\ file_requests = <<>>
    /\ completed_file_names = <<>>
    /\ batchStart = 0
    /\ nextStart = 0
    /\ printed = 0
    /\ firstSeen = [id \in FileIds |-> NoPage]
    /\ firstCount = [id \in FileIds |-> 0]
    /\ dbudget = MaxFileRateLimited
    /\ dfailed = FALSE
    /\ reported = -1

\* the scan of one category, in plain or in verbose mode
Init == InitStore /\ InitScan /\ InitDownload /\ InitRateLimit /\ InitUser /\ InitPin /\ InitKey /\ InitName /\ InitSession /\ verbose \in BOOLEAN
Next == DiscoveryRequest \/ WriteCsvHeader \/ DrainNextQuery \/ DrainPage \/ ScanCleanup
Spec == Init /\ [][Next]_vars
\* the scan is one sequential function: while it has a next statement, it
\* takes it
FairSpec == Spec /\ WF_vars(Next)

\* the store under any sequence of appends and cleanups
StoreInit == InitStore /\ InitScan /\ InitDownload /\ InitRateLimit /\ InitUser /\ InitPin /\ InitKey /\ InitName /\ InitSession /\ verbose = FALSE
StoreNext == StoreAppend \/ StoreCleanup
StoreSpec == StoreInit /\ [][StoreNext]_vars

\* download_interesting_files with its worker processes
DownloadInit == InitStore /\ InitScan /\ InitDownload /\ InitRateLimit /\ InitUser /\ InitPin /\ InitKey /\ InitName /\ InitSession /\ verbose = FALSE
ManagerNext ==
    \/ FileDiscoveryRequest \/ FileDrainNextQuery \/ FileDrainPage
    \/ NextBatch \/ StartWorker \/ PollGet \/ PollCheck \/ FinalDrain \/ Report
WorkerNext(k) == WorkerDownload(k) \/ WorkerExit(k)
DownloadNext == ManagerNext \/ \E k \in 1..MaxTasks : WorkerNext(k)
DownloadSpec == DownloadInit /\ [][DownloadNext]_vars

\* the same, where the manager keeps running and every started worker
\* eventually finishes its download and exits
FairDownloadSpec ==
    /\ DownloadSpec
    /\ WF_vars(ManagerNext)
    /\ \A k \in 1..MaxTasks : WF_vars(WorkerNext(k))

\* the target name of any one discovered file
NameInit ==
    /\ InitStore /\ InitScan /\ InitDownload /\ InitRateLimit /\ InitUser /\ InitPin /\ InitKey /\ InitSession /\ verbose = FALSE
    /\ new_file \in [id : NameIds, name : ListsUpTo(NameChars, MaxNameLen)]
    /\ safe_filename = <<>>
NameNext == BuildFileName
NameSpec == NameInit /\ [][NameNext]_vars

\* a session started with scan flags, or interactively with a selection
\* typed at the prompt and one or more tokens
SessionInit ==
    /\ InitStore /\ InitScan /\ InitDownload /\ InitRateLimit /\ InitUser /\ InitPin /\ InitKey /\ InitName /\ verbose = FALSE
    /\ interactive \in BOOLEAN
    /\ IF interactive
       THEN /\ flags \in { NoFlags, [NoFlags EXCEPT !["s3_scan"] = "True"] }
            /\ provided_tokens \in 1..MaxTokens
            /\ selected_scans \in { ChooseScans(l) : l \in SelectionLists }
       ELSE /\ flags \in [ScanFlags -> {"None", "True", "False"}]
            /\ provided_tokens = 1
            /\ selected_scans = <<>>
    /\ spc = "start"
    /\ ti = 1
    /\ auth = "none"
    /\ scan_context = "None"
    /\ validated = {}
    /\ directories = {}
    /\ writers = {}
    /\ si = 1
    /\ invoked = <<>>
    /\ appends = 0
    /\ ended = "none"
    /\ failures = FALSE
SessionNext ==
    \/ SessionStart \/ Validate \/ MakeOutputDirectory \/ SelectScans
    \/ DispatchNext \/ ScanStep \/ ScanReturn
SessionSpec == SessionInit /\ [][SessionNext]_vars

\* one match of the private-key pattern, in plain or in verbose mode
KeyInit ==
    /\ InitStore /\ InitScan /\ InitDownload /\ InitRateLimit /\ InitUser /\ InitPin /\ InitName /\ InitSession
    /\ verbose \in BOOLEAN
    \* re.findall(PRIVATE_KEYS_REGEX, str(r)): the match is a piece of the
    \* repr of the response, in which the message text stands as its repr
    /\ regex_result \in { Repr(text) : text \in ListsUpTo(KeyChars, MaxKeyLen) }
    /\ persisted = NotWritten
KeyNext == PersistKey
KeySpec == KeyInit /\ [][KeyNext]_vars

\* dump_user_list on any workspace of up to MaxUserPages pages
UserListInit ==
    /\ InitStore /\ InitScan /\ InitDownload /\ InitRateLimit /\ InitPin /\ InitKey
    /\ InitName /\ InitSession /\ verbose = FALSE
    /\ served \in ListsUpTo(0..MaxPageMembers, MaxUserPages)
    /\ upc = "probe"
    /\ pagination_cursor = 0
    /\ users_r = UsersFailed("none")
    /\ results = <<>>
    /\ cursors = <<>>
    /\ ubudget = MaxUserRateLimited
    /\ user_list = NoUserList
UserListNext == UserProbe \/ UserDrain \/ UserReport
UserListSpec == UserListInit /\ [][UserListNext]_vars
\* the function is sequential: while it has a next statement, it takes it
FairUserListSpec == UserListSpec /\ WF_vars(UserListNext)

\* find_pinned_messages over the channels of CHANNELS
PinInit ==
    /\ InitStore /\ InitScan /\ InitDownload /\ InitRateLimit /\ InitUser /\ InitPin /\ InitKey
    /\ InitName /\ InitSession /\ verbose = FALSE
PinNext == PinsRequest \/ PinsFinish
PinSpec == PinInit /\ [][PinNext]_vars

\* any sequence of calls of sleep_if_rate_limited
RateLimitInit ==
    /\ InitStore /\ InitScan /\ InitDownload /\ InitRateLimit /\ InitUser /\ InitPin /\ InitKey /\ InitName /\ InitSession
    /\ verbose = FALSE
RateLimitNext == CallSleepIfRateLimited
RateLimitSpec == RateLimitInit /\ [][RateLimitNext]_vars

(***************************************************************************)
(* The claims.                                                             *)
(***************************************************************************)
NoRateLimit == budget = MaxRateLimited
QueryIndex(q) == CHOOSE i \in 1..Len(S3_QUERIES) : S3_QUERIES[i] = q

\* C1: a scan that met no rate-limited response and no transport failure has
\* issued, for every query, one discovery request plus one request per
\* reported page, and has run the extraction on exactly the reported number
\* of pages.
C1_RequestsAndPages ==
    (pc = "done" /\ failedAt = NoFailure /\ NoRateLimit) =>
        \A q \in Queries : /\ nreq[q] = 1 + PageCountOf(q)
                           /\ nproc[q] = PageCountOf(q)

\* a finished scan of a query with three pages: four requests, three pages processed
C1_Witness ==
    /\ pc = "done" /\ failedAt = NoFailure /\ NoRateLimit
    /\ \E q \in Queries : PageCountOf(q) = 3 /\ nreq[q] = 4 /\ nproc[q] = 3

\* C2: in discovery every rate-limited response is followed by one cooldown
\* sleep and a repeat of the same query's request; the page count of a query
\* is recorded once, from the one response that was not rate-limited, after
\* k + 1 requests when k responses were rate-limited.
C2_DiscoveryRetry ==
    /\ \A q \in Queries :
          /\ discSleeps[q] = discLimited[q]
          /\ recorded[q] <= 1
          /\ recorded[q] = 1 =>
                /\ discReqs[q] = discLimited[q] + 1
                /\ \E i \in 1..Len(page_count_by_query) : page_count_by_query[i].query = q
          /\ (recorded[q] = 0 /\ pc = "discover") => discReqs[q] = discLimited[q]
    /\ (lastReq.phase = "discovery" /\ recorded[lastReq.query] = 1) =>
          /\ r.ok
          /\ PageCountOf(lastReq.query) = r.page_count

\* a query answered rate-limited twice and then successfully
C2_Witness ==
    \E q \in Queries :
        discLimited[q] = 2 /\ discSleeps[q] = 2 /\ discReqs[q] = 3 /\ recorded[q] = 1

C4_CleanupIdempotent ==
    [][(lastOp = "cleanup" /\ lastOp' = "cleanup") => txt' = txt]_vars

\* C5: after file_cleanup no line of the store contains com/archives/.
C5_NoArchiveLine ==
    lastOp = "cleanup" =>
        \A i \in 1..Len(txt.lines) : ~Contains(txt.lines[i], ARCHIVE_MARKER)

\* a store that held an archive line and another line has been cleaned
C5_Witness ==
    /\ lastOp = "cleanup"
    /\ \E l \in Range(preCleanup) : Contains(l, ARCHIVE_MARKER)
    /\ txt.lines # <<>>

TasksFor(id) == { k \in 1..Len(file_requests) : file_requests[k].id = id }
AliveWorkers == { k \in 1..Len(file_requests) : IsAlive(file_requests[k]) }
BatchOf(k) == (k - 1) \div DOWNLOAD_BATCH_SIZE

\* C6: at most DOWNLOAD_BATCH_SIZE started workers are alive at any time,
\* and no worker of a later batch has been started while a worker of an
\* earlier batch is alive.
C6_BoundedWorkers ==
    /\ Cardinality(AliveWorkers) <= DOWNLOAD_BATCH_SIZE
    /\ \A j \in AliveWorkers : \A k \in 1..Len(file_requests) :
          BatchOf(k) > BatchOf(j) => file_requests[k].state = "created"

\* more tasks than one batch holds; a worker of the second batch is running
C6_Witness ==
    \E k \in AliveWorkers :
        /\ BatchOf(k) = 1
        /\ \A j \in 1..DOWNLOAD_BATCH_SIZE : file_requests[j].state = "dead"

AllTasksRun ==
    \A k \in 1..Len(file_requests) :
        file_requests[k].starts = 1 /\ file_requests[k].state = "dead"

\* C8: when the file search has completed (no transport failure) and every
\* worker eventually terminates, download_interesting_files returns, having
\* started every task exactly once; no task is ever started twice.
C8_EveryTaskRunsOnce ==
    /\ [](\A k \in 1..Len(file_requests) : file_requests[k].starts <= 1)
    /\ (dpc = "dispatch") ~> (dpc = "done" /\ AllTasksRun)

\* three tasks were run as a batch of two and a batch of one
C8_Witness ==
    /\ dpc = "done" /\ ~dfailed
    /\ Len(file_requests) > DOWNLOAD_BATCH_SIZE
    /\ Len(file_requests) % DOWNLOAD_BATCH_SIZE # 0
    /\ AllTasksRun

\* C9: when a drain request was answered rate-limited, the next search
\* request is for the same page of the same query.
C9_LimitedPageIsRetried ==
    [][(lastReq.phase = "drain" /\ r.error = "ratelimited" /\ nreq' # nreq)
          => lastReq' = lastReq]_vars

C11_FailedDiscoveryRecordsZero ==
    (lastReq.phase = "discovery" /\ r.error = "other") =>
        /\ pc # "crashed"
        /\ recorded[lastReq.query] = 1
        /\ PageCountOf(lastReq.query) = 0

DrainRequests(q) == nreq[q] - discReqs[q]

\* C12: drain requests go through the queries in list order, and within a
\* query the pages requested are 1, 2, ... in steps of one; a scan that was
\* not cut short has requested every page 1..page_count of every query.
C12_PagesInOrder ==
    /\ [][(lastReq'.phase = "drain" /\ nreq' # nreq) =>
             IF lastReq.phase = "drain" /\ lastReq.query = lastReq'.query
             THEN lastReq'.page = lastReq.page + 1
             ELSE /\ lastReq'.page = 1
                  /\ lastReq.phase = "drain" =>
                        QueryIndex(lastReq'.query) > QueryIndex(lastReq.query)]_vars
    /\ [](lastReq.phase = "drain" => lastReq.page <= PageCountOf(lastReq.query))
    /\ []((pc = "done" /\ failedAt = NoFailure) =>
             \A q \in Queries : DrainRequests(q) = PageCountOf(q))

\* both queries had several pages and the last page of the last query was
\* requested, in a scan that also met a rate-limited page
C12_Witness ==
    /\ pc = "done" /\ failedAt = NoFailure
    /\ drainSleeps > 0
    /\ \A q \in Queries : PageCountOf(q) >= 2 /\ DrainRequests(q) = PageCountOf(q)
    /\ lastReq = [phase |-> "drain", query |-> S3_QUERIES[Len(S3_QUERIES)],
                  page |-> PageCountOf(S3_QUERIES[Len(S3_QUERIES)])]

\* C13: a query with a discovered page count of 0 gets no drain request and
\* no page of it is extracted or appended to a store (every write of the
\* drain belongs to a request for a page of a query that has pages); the
\* other queries are drained in full.
C13_ZeroPagesNoDrain ==
    /\ [](\A q \in Queries :
             (recorded[q] = 1 /\ PageCountOf(q) = 0) =>
                 DrainRequests(q) = 0 /\ nproc[q] = 0)
    /\ [][(pc = "drain_page" /\ (txt' # txt \/ csv' # csv)) =>
             /\ lastReq'.phase = "drain"
             /\ nreq' # nreq
             /\ PageCountOf(lastReq'.query) > 0]_vars
    /\ []((pc = "done" /\ failedAt = NoFailure /\ \E q \in Queries : PageCountOf(q) = 0) =>
             \A q \in Queries : DrainRequests(q) = PageCountOf(q))

\* the first query has no page, the second has two and both were appended
C13_Witness ==
    /\ pc = "done" /\ failedAt = NoFailure /\ ~verbose
    /\ PageCountOf(S3_QUERIES[1]) = 0 /\ DrainRequests(S3_QUERIES[1]) = 0
    /\ PageCountOf(S3_QUERIES[2]) = 2 /\ DrainRequests(S3_QUERIES[2]) = 2
    /\ nproc[S3_QUERIES[2]] = 2
    /\ txt.lines # <<>>

Succeeded == { k \in 1..Len(file_requests) : file_requests[k].outcome = "ok" }

\* C14 (as claimed): the number of files the final message reports is the
\* number of workers that completed their download successfully.
C14_ReportCountsSuccesses ==
    reported >= 0 => reported = Cardinality(Succeeded)

FailedWorkers == { k \in 1..Len(file_requests) : file_requests[k].outcome = "transport_failure" }

\* C15: a download that met a transport failure is attempted once and never
\* again, and once a worker has failed, every task is still started once and
\* runs to its end and the function returns.
C15_FailureStaysLocal ==
    /\ [](\A k \in 1..Len(file_requests) : file_requests[k].attempts <= 1)
    /\ (FailedWorkers # {}) ~> (dpc = "done" /\ AllTasksRun)

\* the first worker failed; the other worker of its batch and the worker of
\* the next batch downloaded their files
C15_Witness ==
    /\ dpc = "done"
    /\ Len(file_requests) > DOWNLOAD_BATCH_SIZE
    /\ FailedWorkers = {1}
    /\ Succeeded = 2..Len(file_requests)
    /\ \A k \in 1..Len(file_requests) :
          file_requests[k].attempts = 1 /\ file_requests[k].starts = 1

\* the nine characters / \ : * ? " < > |
NineCharacters == { 47, 92, 58, 42, 63, 34, 60, 62, 124 }

\* C16: the target name is id + "-" + name with every one of the nine
\* characters replaced by an underscore and every other character kept; it
\* has the same length and none of the nine characters.
C16_SafeFilename ==
    safe_filename # <<>> =>
        LET file_name == new_file.id \o <<45>> \o new_file.name
        IN  /\ Len(safe_filename) = Len(file_name)
            /\ \A i \in 1..Len(file_name) :
                  safe_filename[i] = IF file_name[i] \in NineCharacters THEN 95
                                     ELSE file_name[i]
            /\ \A i \in 1..Len(safe_filename) : safe_filename[i] \notin NineCharacters

\* the file F/ named \a became F_-_a
C16_Witness ==
    /\ new_file = [id |-> <<70, 47>>, name |-> <<92, 97>>]
    /\ safe_filename = <<70, 95, 45, 95, 97>>

InvokedScans == [i \in 1..Len(invoked) |-> invoked[i].scan]

\* the scans the flags select, in the order of the table
SelectedInTableOrder ==
    LET picked == SelectSeq([i \in 1..Len(flags_and_scans) |-> i], RunsScan)
    IN  [k \in 1..Len(picked) |-> flags_and_scans[picked[k]].scan]

\* C17: in a session driven by scan flags a transport failure in a scan
\* never aborts the session: the scan function goes to its end and returns
\* to the dispatch loop, a session whose token was accepted only ever
\* crashes on another kind of error, and a session that reaches its end has invoked exactly the
\* selected scans, once each, in table order.
C17_ScanFailureNeverAborts ==
    /\ [][(spc = "scan" /\ ended' = "transport_failure") => spc' = "after_scan"]_vars
    /\ [][spc = "after_scan" => spc' \in {"after_scan", "dispatch"}]_vars
    /\ []((spc = "crashed" /\ auth = "valid") => ended = "key_error")
    /\ []((~interactive /\ spc = "done") => InvokedScans = SelectedInTableOrder)
    /\ [](~interactive =>
             \E n \in 0..Len(SelectedInTableOrder) :
                 InvokedScans = SubSeq(SelectedInTableOrder, 1, n))

\* three or more scans were selected, one of them met a transport failure
\* and the scans after it ran as well
C17_Witness ==
    /\ ~interactive /\ spc = "done"
    /\ Len(invoked) >= 3 /\ Len(invoked) < Len(flags_and_scans)
    /\ failures /\ ended = "completed"

\* C18: every scan invocation, output directory and store write belongs to a
\* token that credential validation accepted; when validation reports an
\* invalid credential or fails at transport level, nothing of the kind
\* happens for that token and the session stops.
C18_NoScanWithoutContext ==
    /\ [](\A i \in 1..Len(invoked) : invoked[i].token \in validated)
    /\ [](directories \subseteq validated /\ writers \subseteq validated)
    /\ [](auth \in {"invalid", "transport_failure"} =>
             /\ spc \in {"exited", "use_context", "crashed"}
             /\ ti \notin directories
             /\ ti \notin writers
             /\ \A i \in 1..Len(invoked) : invoked[i].token # ti)
    /\ [][(spc = "exited" \/ spc = "crashed") => spc' = spc]_vars

\* auth.test failed at transport level and the session ended before any scan
C18_Witness ==
    /\ auth = "transport_failure" /\ spc = "crashed"
    /\ invoked = <<>> /\ directories = {} /\ writers = {}

\* C19: a scan in verbose mode leaves the plain-text store untouched, and a
\* scan in plain mode never creates or appends to the structured store.
C19_ExclusiveFormat ==
    /\ verbose => txt = NoFile
    /\ ~verbose => csv = NoCsv

\* a verbose scan that has written the header and rows of matches
C19_Witness ==
    /\ verbose /\ pc = "done"
    /\ Len(csv.rows) > 2
    /\ \E i \in 1..Len(csv.rows) : ~csv.rows[i].header

MessageSearchScans ==
    {"find_s3", "find_credentials", "find_aws_keys", "find_private_keys",
     "find_interesting_links"}

\* C20 (as claimed): every message-search scan that has returned has run the
\* cleanup of its store exactly once.
C20_CleanupOncePerScan ==
    \A i \in 1..Len(invoked) :
        (/\ invoked[i].scan \in MessageSearchScans
         /\ (i < Len(invoked) \/ spc \in {"dispatch", "validate", "done"}))
        => invoked[i].cleanups = 1

AllScans == [i \in 1..Len(flags_and_scans) |-> flags_and_scans[i].scan]
FlagsGiven(v) == { f \in ScanFlags : flags[f] = v }
ScansWhoseFlag(keep(_)) ==
    LET picked == SelectSeq([i \in 1..Len(flags_and_scans) |-> i],
                            LAMBDA i : keep(flags_and_scans[i].flag))
    IN  [k \in 1..Len(picked) |-> flags_and_scans[picked[k]].scan]

\* C21: a flag-driven session that runs to its end has run all nine scans in
\* table order when no flag was given, exactly the enabled scans when only
\* enable flags were given, and exactly the scans not disabled when only
\* disable flags were given; when enable and disable flags are mixed no scan
\* is ever run.
C21_FlagDispatch ==
    /\ (~interactive /\ spc = "done") =>
          InvokedScans =
             IF FlagsGiven("True") = {} /\ FlagsGiven("False") = {} THEN AllScans
             ELSE IF FlagsGiven("False") = {}
                  THEN ScansWhoseFlag(LAMBDA f : f \in FlagsGiven("True"))
                  ELSE ScansWhoseFlag(LAMBDA f : f \notin FlagsGiven("False"))
    /\ (~interactive /\ FlagsGiven("True") # {} /\ FlagsGiven("False") # {}) =>
          invoked = <<>> /\ spc # "done"

\* only the private-key scan and the file download were disabled, and the
\* other seven scans have run
C21_Witness ==
    /\ ~interactive /\ spc = "done"
    /\ FlagsGiven("False") = {"private_key_scan", "file_download"}
    /\ FlagsGiven("True") = {}
    /\ Len(invoked) = 7

\* C22: a call of sleep_if_rate_limited returns True exactly when the
\* response has ok = False and error = ratelimited, and then it has slept 60
\* seconds, once; otherwise it returns False and has not slept; the call
\* issues no search request.
C22_SleepIffRateLimited ==
    [][calls' = calls + 1 =>
         /\ returned' \in BOOLEAN
         /\ returned' = TRUE <=>
               (slack_api_json_response'.ok = FALSE
                  /\ slack_api_json_response'.error = "ratelimited")
         /\ returned' = TRUE => slept' = slept + 60
         /\ returned' = FALSE => slept' = slept
         /\ nreq' = nreq /\ lastReq' = lastReq]_vars

\* three calls, two of them on a rate-limited response
C22_Witness ==
    /\ calls = 3 /\ slept = 120
    /\ returned = TRUE
    /\ slack_api_json_response = RateLimitedResponse

\* C23: a scan whose provider rate-limits finitely often and reports finite
\* page counts comes to its end; the drain requests of a query never exceed
\* its discovered page count; a rate-limited discovery response is followed
\* by the same discovery request again, however many came before.
C23_ScanTerminates ==
    /\ <>(pc = "done" \/ pc = "crashed")
    /\ [](\A q \in Queries : DrainRequests(q) <= PageCountOf(q))
    /\ [][(pc = "discover" /\ discLimited' # discLimited) =>
             /\ pc' = "discover" /\ qi' = qi
             /\ page_count_by_query' = page_count_by_query
             /\ discSleeps' = Inc(discSleeps, S3_QUERIES[qi])]_vars

\* a finished scan whose discovery was rate-limited as often as the provider
\* does it, and whose second query was drained to its last page
C23_Witness ==
    /\ pc = "done" /\ failedAt = NoFailure
    /\ discLimited[S3_QUERIES[1]] = MaxRateLimited
    /\ discReqs[S3_QUERIES[1]] = MaxRateLimited + 1
    /\ PageCountOf(S3_QUERIES[2]) = MaxPages
    /\ DrainRequests(S3_QUERIES[2]) = MaxPages

\* C24: when a drain request is issued, every query of the category has had
\* its discovery answered and its page count recorded; from the first drain
\* request on the recorded page counts stay as they are, whatever page count
\* the drain responses report.
C24_DiscoveryBeforeDrain ==
    /\ [](lastReq.phase = "drain" =>
             /\ Len(page_count_by_query) = Len(S3_QUERIES)
             /\ \A q \in Queries : recorded[q] = 1 /\ discReqs[q] >= 1)
    /\ [][(lastReq'.phase = "drain" \/ pc = "drain_page" \/ pc = "drain_query") =>
             /\ page_count_by_query' = page_count_by_query
             /\ discReqs' = discReqs]_vars

\* a drain response reported one page more than the discovery had, and the
\* scan still ended after the recorded number of pages
C24_Witness ==
    /\ pc = "done" /\ failedAt = NoFailure
    /\ r.has_payload /\ r.page_count = PageCountOf(lastReq.query) + 1
    /\ lastReq.phase = "drain" /\ lastReq.page = PageCountOf(lastReq.query)
    /\ lastReq.query = S3_QUERIES[2]
    /\ PageCountOf(S3_QUERIES[1]) = 0

\* C25: in the drain of the file search a rate-limited response leaves the
\* page counter, the query, the task list and the set of known file ids as
\* they were, so that the same page is requested next; the page counter
\* moves, by one, only on a response that is not rate-limited, and tasks are
\* created only from such a response.
C25_FilePageRetried ==
    [][dpc = "drain_page" =>
         /\ dbudget' < dbudget =>
               /\ sleep_if_rate_limited(response_json')
               /\ fpage' = fpage /\ fdq' = fdq /\ dpc' = "drain_page"
               /\ file_requests' = file_requests
               /\ unique_file_id' = unique_file_id
         /\ fpage' # fpage =>
               /\ fpage' = fpage + 1
               /\ ~sleep_if_rate_limited(response_json')
               /\ response_json'.has_payload
         /\ file_requests' # file_requests => ~sleep_if_rate_limited(response_json')]_vars

\* the page of the second query was answered with a rate limit after the
\* first query had yielded files
C25_Witness ==
    /\ dpc = "drain_page" /\ fdq = 2 /\ fpage = 1
    /\ response_json = RateLimitedResponse
    /\ Len(file_requests) = 2 /\ unique_file_id = { "F1", "F3" }

\* the lines a step has put at the end of the plain-text file
AddedLines == SubSeq(txt'.lines, Len(txt.lines) + 1, Len(txt'.lines))

\* C26: in plain mode the processing of one page appends each distinct value
\* matched on that page exactly once: the appended lines are pairwise
\* different and are the lines of the page's distinct matches, and the lines
\* the file had before stay in place.
C26_PageValuesOnce ==
    [][(pc = "drain_page" /\ ~verbose /\ nproc' # nproc) =>
         /\ Len(txt'.lines) >= Len(txt.lines)
         /\ SubSeq(txt'.lines, 1, Len(txt.lines)) = txt.lines
         /\ \A i, j \in 1..Len(AddedLines) : i # j => AddedLines[i] # AddedLines[j]
         /\ Range(AddedLines) = { LineOf(m) : m \in Range(r'.matches) }]_vars

\* two pages that both matched "Ab" twice: the value stands in the file
\* twice, once for each page
C26_Witness ==
    /\ ~verbose /\ pc = "drain_page" /\ lastOp = "append"
    /\ Len(r.matches) = 3 /\ r.matches[2] = r.matches[3]
    /\ Len(txt.lines) = 4
    /\ Cardinality({ i \in 1..4 : txt.lines[i] = LineOf(<<65, 98>>) }) = 2

\* C27: in verbose mode the processing of one page adds to the .csv file one
\* row for each item of the page's match list, in the order of the list, and
\* the matches of a row are those of its own item alone; the rows the file
\* had before stay in place.
C27_OneRowPerItem ==
    [][(pc = "drain_page" /\ verbose /\ nproc' # nproc /\ pc' # "crashed") =>
         /\ Len(csv'.rows) = Len(csv.rows) + Len(r'.matches)
         /\ SubSeq(csv'.rows, 1, Len(csv.rows)) = csv.rows
         /\ \A i \in 1..Len(r'.matches) :
               csv'.rows[Len(csv.rows) + i] =
                  [header |-> FALSE, regex_results |-> { r'.matches[i] }]]_vars

\* a page of three items, two of them with the same match: the header and
\* three rows, the last two alike
C27_Witness ==
    /\ verbose /\ pc = "drain_page" /\ Len(r.matches) = 3
    /\ Len(csv.rows) = 4 /\ csv.rows[1] = HeaderRow
    /\ csv.rows[2].regex_results = { r.matches[1] }
    /\ csv.rows[3] = csv.rows[4] /\ csv.rows[4].regex_results = { r.matches[3] }

\* C28: a private-key match that has been written, in plain mode or in
\* verbose mode, holds no backslash followed by n.
C28_EscapedNewlinesReplaced ==
    persisted # NotWritten => ~Contains(persisted, ESCAPED_NEWLINE)

\* C29: after file_cleanup the set of lines of the store is the set of lines
\* it had before without the lines that contain com/archives/, and no line
\* comes before a line whose lower-cased form is smaller.
C29_CleanupKeepsFindingsSorted ==
    lastOp = "cleanup" =>
        /\ Range(txt.lines) = Range(preCleanup) \ { l \in Range(preCleanup) : Contains(l, ARCHIVE_MARKER) }
        /\ \A i \in 1..(Len(txt.lines) - 1) :
              ~StrLess(Lower(txt.lines[i + 1]), Lower(txt.lines[i]))

\* "B", an archive line, "ab" and "Ab" were appended in this order; "B" now
\* stands last and the archive line is gone
C29_Witness ==
    /\ lastOp = "cleanup"
    /\ preCleanup = << LineOf(<<66>>), LineOf(ARCHIVE_MARKER \o <<84>>),
                       LineOf(<<97, 98>>), LineOf(<<65, 98>>) >>
    /\ Len(txt.lines) = 3 /\ txt.lines[3] = LineOf(<<66>>)
    /\ txt.lines[1] = LineOf(<<97, 98>>)

\* C30: the task list never holds two tasks for the same file id, and no two
\* workers that have been started write the file of the same id (the target
\* path is made of the id and the name of the file).
C30_OneTaskPerFileId ==
    /\ \A id \in FileIds : Cardinality(TasksFor(id)) <= 1
    /\ \A j, k \in 1..Len(file_requests) :
          (j # k /\ file_requests[j].starts > 0 /\ file_requests[k].starts > 0) =>
             file_requests[j].id # file_requests[k].id

\* C31: a worker that leaves _download_file has put exactly one message on
\* the queue, a success message or an error message, whatever the outcome of
\* its GET and of its write.
C31_OneMessagePerWorker ==
    [][\A k \in 1..Len(file_requests) :
          (file_requests[k].state = "alive" /\ file_requests'[k].state # "alive") =>
             /\ Len(completed_file_names') = Len(completed_file_names) + 1
             /\ completed_file_names'[Len(completed_file_names')].task = k
             /\ completed_file_names'[Len(completed_file_names')].kind
                   \in {"success", "error"}]_vars

\* the workers that have put a message
MessagesPut ==
    { k \in 1..Len(file_requests) : file_requests[k].outcome \in {"ok", "transport_failure"} }

\* C32: when the wait for a batch has returned and the next
\* batch is not yet dispatched the queue holds no message of that batch, and
\* when the function returns every message put has been printed.
C32_BatchMessagesConsumedBeforeNext ==
    /\ dpc = "dispatch" => completed_file_names = <<>>
    /\ dpc = "done" =>
          completed_file_names = <<>> /\ printed = Cardinality(MessagesPut)

\* a request of the file search may still be issued
FileSearchRunning == dpc = "discover" \/ dpc = "drain_query" \/ dpc = "drain_page"
StartedWorkers == { k \in 1..Len(file_requests) : file_requests[k].starts > 0 }

\* C33: while the file search may still issue a request no worker has been
\* started; processes are created during the drain only and are started by
\* the dispatch only; after a transport failure in the search no worker is
\* ever started.
C33_NoWorkerDuringSearch ==
    /\ [](FileSearchRunning => StartedWorkers = {})
    /\ [](dfailed => StartedWorkers = {})
    /\ [][Len(file_requests') > Len(file_requests) => dpc = "drain_page"]_vars
    /\ [][StartedWorkers' # StartedWorkers =>
             /\ dpc = "start" /\ ~dfailed
             /\ fqi > Len(INTERESTING_FILE_QUERIES)]_vars

\* the search failed on the second query after the first had yielded two
\* files; the function has returned and neither process was started
C33_Witness ==
    /\ dpc = "done" /\ dfailed
    /\ Len(file_requests) = 2
    /\ \A k \in 1..2 : file_requests[k].state = "created"

\* C34: the user list that dump_user_list has written holds every member of
\* the workspace exactly once, the member of the first (limit=1) response
\* included.
C34_EveryMemberExported ==
    user_list.exists =>
        \A m \in AllMembers :
            Cardinality({ i \in 1..Len(user_list.members) : user_list.members[i] = m }) = 1

\* the cursors of the requests made with limit=MAX_RETRIEVAL_COUNT
DrainCursors == SelectSeq(cursors, LAMBDA c : c # 0)

\* C35: on a provider whose pages end with an empty next_cursor the user-list
\* function comes to its end; every request after the first uses the
\* next_cursor of the response before it, also when that response held no
\* member; no cursor is requested twice.
C35_UserListTerminates ==
    /\ <>(upc = "done" \/ upc = "crashed")
    /\ [](\A i, j \in 1..Len(DrainCursors) : i # j => DrainCursors[i] # DrainCursors[j])
    /\ [][(upc = "drain" /\ cursors' # cursors) =>
             cursors'[Len(cursors')] = users_r.next_cursor]_vars

\* C36: every pinned message taken from a response is written to the file
\* exactly once: until the end of the scan the file followed by the
\* accumulator is the list of the messages collected, and at the end the
\* file is that list; a rate-limited response writes the accumulator, empties
\* it and leaves the scan at the same channel; this holds after a transport
\* failure as well.
C36_PinnedWrittenOnce ==
    /\ [](ppc # "done" => pinned_file \o pinned_message_contents = collected)
    /\ [](ppc = "done" => pinned_file = collected)
    /\ [](\A i, j \in 1..Len(pinned_file) : i # j => pinned_file[i] # pinned_file[j])
    /\ [][pbudget' < pbudget =>
             /\ ci' = ci /\ ppc' = "channel"
             /\ pinned_file' = pinned_file \o pinned_message_contents
             /\ pinned_message_contents' = <<>>]_vars

\* the first channel gave two messages, the request for the second channel
\* was rate-limited, which wrote them, and its repetition met a transport
\* failure: the scan has ended with both messages in the file
C36_Witness ==
    /\ ppc = "done" /\ pfailed /\ ci = 2
    /\ pbudget = MaxPinRateLimited - 1
    /\ Len(pinned_file) = 2 /\ pinned_message_contents = <<>>

\* C37: in verbose mode the file_cleanup call at the end of the scan leaves
\* the .csv file as it is: its rows are neither deduplicated nor filtered nor
\* reordered.
C37_CleanupLeavesCsv ==
    [][(pc = "cleanup" /\ verbose) => csv' = csv]_vars

\* a verbose scan has ended after file_cleanup, and its .csv file still has
\* two equal rows and a row with an archive link
C37_Witness ==
    /\ verbose /\ pc = "done" /\ lastOp = "cleanup"
    /\ \E i, j \in 1..Len(csv.rows) : i < j /\ csv.rows[i] = csv.rows[j]
    /\ \E i \in 1..Len(csv.rows) :
          ~csv.rows[i].header
            /\ \E v \in csv.rows[i].regex_results : Contains(v, ARCHIVE_MARKER)

\* C38: file_cleanup on a store whose file does not exist changes nothing:
\* the file is still absent afterwards and the other file is as it was.
C38_CleanupOfMissingFile ==
    [][(~txt.exists /\ lastOp' = "cleanup") =>
          txt' = NoFile /\ csv' = csv]_vars

\* file_cleanup has run on a store that was never appended to
C38_Witness ==
    lastOp = "cleanup" /\ ~txt.exists /\ preCleanup = <<>>

====
